---- MODULE Spec2Model ----
(***************************************************************************)
(* Model of the health-audit runner of app.py: run_health_audit_notebook   *)
(* (cell selection, subset construction, execution, output inspection,     *)
(* all under HEALTH_LOCK) and the POST /api/health/run handler             *)
(* run_and_get_health, which calls it and then reads the persisted row.    *)
(*                                                                         *)
(* Text is modelled by TLA+ strings; lower(), lstrip(), strip(),           *)
(* startswith() and the "in" substring test are computed character by      *)
(* character.  Cell indices are 0-based as in the code: cell i of a        *)
(* document nb is nb[i + 1].                                               *)
(***************************************************************************)
EXTENDS Integers, Sequences, FiniteSets, TLC

(***************************************************************************)
(* Bounds of the model.                                                    *)
(***************************************************************************)
\* Longest document that is enumerated.
MaxCells == 25
\* Number of concurrent HTTP requests (threads of the server's pool).
NumRequests == 2
\* Total number of calls of run_and_get_health that are admitted.
MaxCalls == 2

(***************************************************************************)
(* Python string operations.                                               *)
(***************************************************************************)
UpperChars == "ABCDEFGHIJKLMNOPQRSTUVWXYZ"
LowerChars == "abcdefghijklmnopqrstuvwxyz"

CharAt(s, i) == SubSeq(s, i, i)

\* str.lower() on one character.
LowerChar(c) ==
  IF \E k \in 1..Len(UpperChars) : CharAt(UpperChars, k) = c
  THEN CharAt(LowerChars, CHOOSE k \in 1..Len(UpperChars) : CharAt(UpperChars, k) = c)
  ELSE c

RECURSIVE LowerFrom(_, _)
LowerFrom(s, i) ==
  IF i > Len(s) THEN "" ELSE LowerChar(CharAt(s, i)) \o LowerFrom(s, i + 1)

\* str.lower()
Lower(s) == LowerFrom(s, 1)

IsSpace(c) == c \in {" ", "\t", "\n", "\r"}

RECURSIVE LStrip(_)
\* str.lstrip()
LStrip(s) ==
  IF Len(s) > 0 /\ IsSpace(CharAt(s, 1)) THEN LStrip(SubSeq(s, 2, Len(s))) ELSE s

RECURSIVE RStrip(_)
RStrip(s) ==
  IF Len(s) > 0 /\ IsSpace(CharAt(s, Len(s))) THEN RStrip(SubSeq(s, 1, Len(s) - 1)) ELSE s

\* str.strip()
Strip(s) == RStrip(LStrip(s))

\* s.startswith(p)
StartsWith(s, p) == Len(s) >= Len(p) /\ SubSeq(s, 1, Len(p)) = p

\* m in s
Contains(m, s) ==
  \E i \in 0..(Len(s) - Len(m)) : SubSeq(s, i + 1, i + Len(m)) = m

RECURSIVE Join(_)
\* ''.join(parts)
Join(parts) == IF parts = <<>> THEN "" ELSE Head(parts) \o Join(Tail(parts))

Max(a, b) == IF a >= b THEN a ELSE b
Min(a, b) == IF a <= b THEN a ELSE b

(***************************************************************************)
(* Program constants.                                                      *)
(***************************************************************************)
HEALTH_TAG == "ui:health"
PIP_INSTALL == "%pip install"
load_markers ==
  << "listings = pd.read_csv",
     "calendar = pd.read_csv",
     "reviews = pd.read_csv",
     "def run_health_audit",
     "def persist_health_audit",
     "persist_health_audit(",
     "run_health_audit(" >>
\* Length of the safe prefix of the fallback rule is SafePrefixLast + 1.
SafePrefixLast == 19
PERSISTED_MARKER == "WSB_DSS_HEALTH_PERSISTED"
ERROR_MARKER == "WSB_DSS_HEALTH_ERROR"
post_snippet ==
  "\ntry:\n\taudit = run_health_audit(listings, calendar, reviews, verbose=False)\n"
  \o "\tpersist_health_audit(audit, overwrite=True, verbose=False)\n"
  \o "\tprint('WSB_DSS_HEALTH_PERSISTED')\nexcept Exception as e:\n"
  \o "\tprint('WSB_DSS_HEALTH_ERROR', e)\n"

(***************************************************************************)
(* Cells.  A cell has metadata tags (a list whose items need not be        *)
(* strings) and a source (a string, or a list of lines, both joined by     *)
(* ''.join).                                                               *)
(***************************************************************************)
Tag(v) == [isStr |-> TRUE, val |-> v]
\* A tag that is not a string (isinstance(t, str) is false); val is its repr.
NonStrTag(v) == [isStr |-> FALSE, val |-> v]
Cell(tags, source) == [tags |-> tags, source |-> source]

\* nbformat.v4.new_code_cell(post_snippet)
SynthesisCell == Cell(<<>>, <<post_snippet>>)

(***************************************************************************)
(* Cell Selector: run_health_audit_notebook, lines 52-85.                  *)
(***************************************************************************)
\* The inner loop over a cell's tags: some tag is a str whose lower() is
\* the health tag.
HasHealthTagCaseSensitive(cell) ==
  \E k \in 1..Len(cell.tags) : cell.tags[k].isStr /\ cell.tags[k].val = HEALTH_TAG

HasHealthTag(cell) ==
  \E k \in 1..Len(cell.tags) :
     cell.tags[k].isStr /\ Lower(cell.tags[k].val) = HEALTH_TAG

RECURSIVE TagScan(_, _, _)
\* Rule 1, the loop over enumerate(nb.cells) from index i with
\* last_needed_idx = acc.
TagScan(cells, i, acc) ==
  IF i >= Len(cells) THEN acc
  ELSE TagScan(cells, i + 1, IF HasHealthTag(cells[i + 1]) THEN Max(acc, i) ELSE acc)

\* src.lstrip().startswith('%pip install')
IsPipInstallLeft(src) == StartsWith(LStrip(src), PIP_INSTALL)

\* The inner loop over load_markers.
HasMarker(src) == \E k \in 1..Len(load_markers) : Contains(load_markers[k], src)

RECURSIVE ContentScanNoSkip(_, _, _)
ContentScanNoSkip(cells, i, acc) ==
  IF i >= Len(cells) THEN acc
  ELSE ContentScanNoSkip(cells, i + 1,
         IF HasMarker(Join(cells[i + 1].source)) THEN Max(acc, i) ELSE acc)

RECURSIVE ContentScan(_, _, _)
\* Rule 2, the loop over enumerate(nb.cells) from index i with
\* last_needed_idx = acc.
ContentScan(cells, i, acc) ==
  IF i >= Len(cells) THEN acc
  ELSE LET src == Join(cells[i + 1].source)
       IN ContentScan(cells, i + 1,
            IF IsPipInstallLeft(src) THEN acc
            ELSE IF HasMarker(src) THEN Max(acc, i) ELSE acc)

FallbackWholeDocument(cells) == Len(cells) - 1

\* Rule 3: min(len(nb.cells)-1, 19)
Fallback(cells) == Min(Len(cells) - 1, SafePrefixLast)

\* The value of last_needed_idx after the three rules.
SelectCutoff(cells) ==
  LET byTag == TagScan(cells, 0, -1)
      byContent == IF byTag < 0 THEN ContentScan(cells, 0, byTag) ELSE byTag
  IN IF byContent < 0 THEN Fallback(cells) ELSE byContent

(***************************************************************************)
(* Subset construction: lines 88-107.                                      *)
(***************************************************************************)
\* ''.join(cell.source).strip().startswith('%pip install')
IsPipInstall(cell) == StartsWith(Strip(Join(cell.source)), PIP_INSTALL)

RECURSIVE PrefixCellsUnfiltered(_, _, _)
PrefixCellsUnfiltered(cells, idx, last) ==
  IF idx > last THEN <<>>
  ELSE <<cells[idx + 1]>> \o PrefixCellsUnfiltered(cells, idx + 1, last)

RECURSIVE PrefixCells(_, _, _)
\* The loop over range(0, last_needed_idx+1), from idx on.
PrefixCells(cells, idx, last) ==
  IF idx > last THEN <<>>
  ELSE (IF IsPipInstall(cells[idx + 1]) THEN <<>> ELSE <<cells[idx + 1]>>)
         \o PrefixCells(cells, idx + 1, last)

\* The cells of subset_nb.
SubsetCells(cells, last) == Append(PrefixCells(cells, 0, last), SynthesisCell)

(***************************************************************************)
(* Output inspection: lines 112-128.                                       *)
(***************************************************************************)
\* Output records.  A stream record's text is a str unless textIsStr is
\* false (then += raises TypeError).
Stream(t) ==
  [output_type |-> "stream", text |-> t, textIsStr |-> TRUE,
   data |-> [k \in {"text/html"} |-> ""], traceback |-> <<>>]
BadStream ==
  [output_type |-> "stream", text |-> "", textIsStr |-> FALSE,
   data |-> [k \in {"text/html"} |-> ""], traceback |-> <<>>]
Result(type, d) ==
  [output_type |-> type, text |-> "", textIsStr |-> TRUE,
   data |-> d, traceback |-> <<>>]
Error(tb) ==
  [output_type |-> "error", text |-> "", textIsStr |-> TRUE,
   data |-> [k \in {"text/html"} |-> ""], traceback |-> tb]

RECURSIVE JoinLines(_)
\* '\n'.join(lines)
JoinLines(lines) ==
  IF lines = <<>> THEN ""
  ELSE IF Len(lines) = 1 THEN Head(lines)
  ELSE Head(lines) \o "\n" \o JoinLines(Tail(lines))

\* What one output record adds to stdout_text.
OutputContribution(out) ==
  IF out.output_type = "stream" THEN out.text
  ELSE IF out.output_type \in {"execute_result", "display_data"}
       THEN (IF "text/plain" \in DOMAIN out.data THEN out.data["text/plain"] ELSE "")
  ELSE IF out.output_type = "error" THEN JoinLines(out.traceback)
  ELSE ""

RECURSIVE StdoutText(_)
\* stdout_text after the loop over last_outputs.
StdoutText(outs) ==
  IF outs = <<>> THEN "" ELSE OutputContribution(Head(outs)) \o StdoutText(Tail(outs))

\* The loop raises when it meets a stream record whose text is not a str.
ParseRaises(outs) ==
  \E k \in 1..Len(outs) : outs[k].output_type = "stream" /\ ~outs[k].textIsStr

\* persisted = 'WSB_DSS_HEALTH_PERSISTED' in stdout_text
Persisted(outs) == Contains(PERSISTED_MARKER, StdoutText(outs))

(***************************************************************************)
(* Inputs: documents, execution outputs.                                   *)
(***************************************************************************)
Plain == Cell(<<>>, <<"x = 1">>)
TaggedLower == Cell(<<Tag("ui:health")>>, <<"x = 2">>)
TaggedMixed == Cell(<<Tag("setup"), Tag("UI:Health")>>, <<"import pandas as pd\n", "x = 3">>)
NearTag == Cell(<<Tag("ui:healthy"), NonStrTag("ui:health")>>, <<"x = 4">>)
Loader == Cell(<<>>, <<"listings = pd.read_csv(p)">>)
WrongCase == Cell(<<>>, <<"# %pip install x\n", "Listings = pd.read_csv(p)">>)
Definer == Cell(<<>>, <<"# audit\n", "def run_health_audit(a):\n", "\tpass">>)
PipWithMarker == Cell(<<>>, <<" \n%pip install x # run_health_audit(">>)
PipPlain == Cell(<<>>, <<"%pip install pandas\n">>)
TaggedPip == Cell(<<Tag("UI:HEALTH")>>, <<"\t%pip install duckdb">>)

CellKinds ==
  { Plain, TaggedLower, TaggedMixed, NearTag, Loader, WrongCase, Definer,
    PipWithMarker, PipPlain, TaggedPip }
Fillers == { Plain, PipPlain }
\* Places (1-based) where a document may hold a cell that is not its filler.
Places == { 1, 4, 8, SafePrefixLast + 1, SafePrefixLast + 2 }

\* The document of n cells with c1 at place p1, c2 at place p2, f elsewhere.
Document(n, p1, c1, p2, c2, f) ==
  [i \in 1..n |-> IF i = p1 THEN c1 ELSE IF i = p2 THEN c2 ELSE f]

AllDocuments ==
  { Document(n, p[1], c1, p[2], c2, f) :
      n \in 0..MaxCells, p \in {q \in Places \X Places : q[1] < q[2]},
      c1 \in CellKinds, c2 \in CellKinds, f \in Fillers }

\* The documents of the concurrent specification.
FewDocuments ==
  { <<>>,
    Document(3, 1, PipPlain, 3, TaggedMixed, Loader) }

\* What the kernel may record as outputs of the synthesis cell.
SuccessOutputs ==
  { << Stream(PERSISTED_MARKER \o "\n") >>,
    << Stream("WSB_DSS_HEALTH_"), Stream("PERSISTED\n") >> }
FailureOutputs ==
  { << Stream(ERROR_MARKER \o " name 'listings' is not defined\n") >>,
    << Result("display_data", [k \in {"text/plain"} |-> "wsb_dss_health_persisted"]),
       Error(<<"Traceback", "NameError">>) >>,
    << BadStream >> }

(***************************************************************************)
(* State.                                                                  *)
(***************************************************************************)
Requests == 1..NumRequests
Free == 0
NoDocument == << >>
NoRow == [dataset_id |-> "", computed_at |-> -1, metrics |-> 0]
NoResponse == [status |-> "", data |-> NoRow, error |-> ""]

VARIABLES
  notebook,         \* the document file at NOTEBOOK_PATH
  HEALTH_LOCK,      \* Free, or the request that holds the lock
  health_checks,    \* the rows of table health_checks in wsb_dss.duckdb
  clock,            \* the time of the last write to health_checks
  calls,            \* number of calls of run_and_get_health so far
  pc,               \* pc[r]: where request r is
  nb,               \* nb[r]: the cells read by nbformat.read
  last_needed_idx,  \* last_needed_idx[r]
  selected_cells,   \* selected_cells[r], the cells of subset_nb
  last_outputs,     \* last_outputs[r]
  persisted,        \* persisted[r]
  exc,              \* exc[r]: the step of the call of r that raised, or "none"
  wrote,            \* wrote[r]: the audit of this call of r persisted a row
  ok,               \* ok[r]: the value returned by run_health_audit_notebook
  con,              \* con[r]: run_and_get_health reached duckdb.connect
  response          \* response[r]: the value returned by run_and_get_health

vars == << notebook, HEALTH_LOCK, health_checks, clock, calls, pc, nb,
           last_needed_idx, selected_cells, last_outputs, persisted,
           exc, wrote, ok, con, response >>
storage == << health_checks, clock >>
locals == << nb, last_needed_idx, selected_cells, last_outputs, persisted >>
results == << exc, wrote, ok, con, response >>

\* The state when the server has started, for a document file among docs and
\* a table among tables.
InitWith(docs, tables) ==
  /\ notebook \in docs
  /\ HEALTH_LOCK = Free
  /\ health_checks \in tables
  /\ clock = 0
  /\ calls = 0
  /\ pc = [r \in Requests |-> "idle"]
  /\ nb = [r \in Requests |-> NoDocument]
  /\ last_needed_idx = [r \in Requests |-> -1]
  /\ selected_cells = [r \in Requests |-> <<>>]
  /\ last_outputs = [r \in Requests |-> <<>>]
  /\ persisted = [r \in Requests |-> FALSE]
  /\ exc = [r \in Requests |-> "none"]
  /\ wrote = [r \in Requests |-> FALSE]
  /\ ok = [r \in Requests |-> FALSE]
  /\ con = [r \in Requests |-> FALSE]
  /\ response = [r \in Requests |-> NoResponse]

\* The table is empty, or holds the row of an earlier audit of another dataset.
Tables == { {}, {[dataset_id |-> "old", computed_at |-> 0, metrics |-> 0]} }

Init == InitWith(FewDocuments, Tables)

\* The locals of a call that has left the with block.
DropLocals(r) ==
  /\ nb' = [nb EXCEPT ![r] = NoDocument]
  /\ last_needed_idx' = [last_needed_idx EXCEPT ![r] = -1]
  /\ selected_cells' = [selected_cells EXCEPT ![r] = <<>>]
  /\ last_outputs' = [last_outputs EXCEPT ![r] = <<>>]

(***************************************************************************)
(* The storage side: persist_health_audit of the notebook, called by the   *)
(* synthesis cell with overwrite=True.                                     *)
(***************************************************************************)
\* The table after the audit of request r persisted its row at time t: the
\* row of the audited dataset is replaced.
Persist(rows, t, r) ==
  {row \in rows : row.dataset_id # "wsb"}
     \cup {[dataset_id |-> "wsb", computed_at |-> t, metrics |-> r]}

(***************************************************************************)
(* run_health_audit_notebook.                                              *)
(***************************************************************************)
\* A request arrives: run_and_get_health calls run_health_audit_notebook.
Call(r) ==
  /\ pc[r] \in {"idle", "done"}
  /\ calls < MaxCalls
  /\ calls' = calls + 1
  /\ pc' = [pc EXCEPT ![r] = "wait"]
  /\ persisted' = [persisted EXCEPT ![r] = FALSE]
  /\ exc' = [exc EXCEPT ![r] = "none"]
  /\ wrote' = [wrote EXCEPT ![r] = FALSE]
  /\ ok' = [ok EXCEPT ![r] = FALSE]
  /\ con' = [con EXCEPT ![r] = FALSE]
  /\ response' = [response EXCEPT ![r] = NoResponse]
  /\ UNCHANGED << notebook, HEALTH_LOCK, storage, nb, last_needed_idx,
                  selected_cells, last_outputs >>

AcquireWithoutWaiting(r) ==
  /\ pc[r] = "wait"
  /\ HEALTH_LOCK' = r
  /\ pc' = [pc EXCEPT ![r] = "locked"]
  /\ UNCHANGED << notebook, storage, calls, locals, results >>

\* with HEALTH_LOCK: entry (line 49).
Acquire(r) ==
  /\ pc[r] = "wait"
  /\ HEALTH_LOCK = Free
  /\ HEALTH_LOCK' = r
  /\ pc' = [pc EXCEPT ![r] = "locked"]
  /\ UNCHANGED << notebook, storage, calls, locals, results >>

RaiseKeepingLock(r, step) ==
  /\ pc' = [pc EXCEPT ![r] = "except"]
  /\ exc' = [exc EXCEPT ![r] = step]
  /\ DropLocals(r)
  /\ UNCHANGED << HEALTH_LOCK, notebook, calls, persisted, ok, con, response >>

\* An exception raised inside the with block by `step`: the with statement
\* releases the lock and control reaches the except clause (lines 49, 131).
Raise(r, step) ==
  /\ HEALTH_LOCK' = IF HEALTH_LOCK = r THEN Free ELSE HEALTH_LOCK
  /\ pc' = [pc EXCEPT ![r] = "except"]
  /\ exc' = [exc EXCEPT ![r] = step]
  /\ DropLocals(r)
  /\ UNCHANGED << notebook, calls, persisted, ok, con, response >>

\* nb = nbformat.read(NOTEBOOK_PATH, as_version=4)
Load(r) ==
  /\ pc[r] = "locked"
  /\ nb' = [nb EXCEPT ![r] = notebook]
  /\ pc' = [pc EXCEPT ![r] = "loaded"]
  /\ UNCHANGED << notebook, HEALTH_LOCK, storage, calls, last_needed_idx,
                  selected_cells, last_outputs, persisted, results >>

\* nbformat.read raises (file missing or corrupt).
LoadRaises(r) ==
  /\ pc[r] = "locked"
  /\ Raise(r, "load")
  /\ UNCHANGED << storage, wrote >>

\* Lines 52-85: the three rules.
Select(r) ==
  /\ pc[r] = "loaded"
  /\ last_needed_idx' = [last_needed_idx EXCEPT ![r] = SelectCutoff(nb[r])]
  /\ pc' = [pc EXCEPT ![r] = "selected"]
  /\ UNCHANGED << notebook, HEALTH_LOCK, storage, calls, nb, selected_cells,
                  last_outputs, persisted, results >>

\* Lines 88-107: selected_cells and subset_nb.
BuildSubset(r) ==
  /\ pc[r] = "selected"
  /\ selected_cells' = [selected_cells EXCEPT ![r] = SubsetCells(nb[r], last_needed_idx[r])]
  /\ pc' = [pc EXCEPT ![r] = "built"]
  /\ UNCHANGED << notebook, HEALTH_LOCK, storage, calls, nb, last_needed_idx,
                  last_outputs, persisted, results >>

\* The effect of the executed cells on the storage: w says whether a row
\* was persisted.
StorageEffect(r, w) ==
  /\ wrote' = [wrote EXCEPT ![r] = w]
  /\ IF w THEN /\ clock' = clock + 1
               /\ health_checks' = Persist(health_checks, clock + 1, r)
          ELSE UNCHANGED storage

\* The outputs the synthesis cell can leave and whether a row was persisted:
\* the cell prints the success marker only after persist_health_audit
\* returned; when no cell runs before it, what it calls is undefined, so it
\* fails and nothing is persisted.
PossibleOutcomes(cells) ==
  { o \in (SuccessOutputs \cup FailureOutputs) \X BOOLEAN :
      /\ o[1] \in SuccessOutputs => o[2]
      /\ Len(cells) = 1 => o[1] \in FailureOutputs /\ ~o[2] }

\* client.execute() returns (line 109); last_outputs is read (line 112).
Execute(r) ==
  /\ pc[r] = "built"
  /\ \E o \in PossibleOutcomes(selected_cells[r]) :
        /\ last_outputs' = [last_outputs EXCEPT ![r] = o[1]]
        /\ StorageEffect(r, o[2])
  /\ pc' = [pc EXCEPT ![r] = "executed"]
  /\ UNCHANGED << notebook, HEALTH_LOCK, calls, nb, last_needed_idx, selected_cells,
                  persisted, exc, ok, con, response >>

\* client.execute() raises: a cell ran longer than the timeout, or the
\* kernel died.  Cells that ran before may have persisted a row.
ExecuteRaises(r) ==
  /\ pc[r] = "built"
  /\ \E w \in BOOLEAN : (Len(selected_cells[r]) = 1 => ~w) /\ StorageEffect(r, w)
  /\ Raise(r, "execute")

\* Lines 113-128: stdout_text and persisted.
Classify(r) ==
  /\ pc[r] = "executed"
  /\ ~ParseRaises(last_outputs[r])
  /\ persisted' = [persisted EXCEPT ![r] = Persisted(last_outputs[r])]
  /\ pc' = [pc EXCEPT ![r] = "classified"]
  /\ UNCHANGED << notebook, HEALTH_LOCK, storage, calls, nb, last_needed_idx,
                  selected_cells, last_outputs, results >>

\* The loop over last_outputs raises.
ClassifyRaises(r) ==
  /\ pc[r] = "executed"
  /\ ParseRaises(last_outputs[r])
  /\ Raise(r, "parse")
  /\ UNCHANGED << storage, wrote >>

ReturnKeepingLock(r) ==
  /\ pc[r] = "classified"
  /\ ok' = [ok EXCEPT ![r] = TRUE]
  /\ pc' = [pc EXCEPT ![r] = "returned"]
  /\ DropLocals(r)
  /\ UNCHANGED << HEALTH_LOCK, notebook, storage, calls, persisted, exc, wrote, con, response >>

\* The with block ends, the lock is released; return True (line 130).
Return(r) ==
  /\ pc[r] = "classified"
  /\ HEALTH_LOCK' = Free
  /\ ok' = [ok EXCEPT ![r] = TRUE]
  /\ pc' = [pc EXCEPT ![r] = "returned"]
  /\ DropLocals(r)
  /\ UNCHANGED << notebook, storage, calls, persisted, exc, wrote, con, response >>

ExceptReraises(r) ==
  /\ pc[r] = "except"
  /\ pc' = [pc EXCEPT ![r] = "propagated"]
  /\ UNCHANGED << notebook, HEALTH_LOCK, storage, calls, locals, results >>

\* except Exception as e: print(...); return False (lines 131-133).
Except(r) ==
  /\ pc[r] = "except"
  /\ ok' = [ok EXCEPT ![r] = FALSE]
  /\ pc' = [pc EXCEPT ![r] = "returned"]
  /\ UNCHANGED << notebook, HEALTH_LOCK, storage, calls, locals, exc, wrote, con, response >>

(***************************************************************************)
(* run_and_get_health, after run_health_audit_notebook returned.           *)
(***************************************************************************)
FAILED_MESSAGE == "Failed to execute health audit cells."

OldestRows(rows) == {x \in rows : \A y \in rows : x.computed_at <= y.computed_at}

\* ORDER BY computed_at DESC LIMIT 1: the rows fetchone() may return.
LatestRows(rows) == {x \in rows : \A y \in rows : y.computed_at <= x.computed_at}

\* if not ok: return the error status (lines 140-141).
RespondError(r) ==
  /\ pc[r] = "returned"
  /\ ~ok[r]
  /\ response' = [response EXCEPT ![r] =
                    [status |-> "error", data |-> NoRow, error |-> FAILED_MESSAGE]]
  /\ pc' = [pc EXCEPT ![r] = "done"]
  /\ UNCHANGED << notebook, HEALTH_LOCK, storage, calls, locals, exc, wrote, ok, con >>

\* Lines 143-148: connect, fetch the latest row, return ok or empty.
ReadStorage(r) ==
  /\ pc[r] = "returned"
  /\ ok[r]
  /\ con' = [con EXCEPT ![r] = TRUE]
  /\ IF health_checks = {}
     THEN response' = [response EXCEPT ![r] =
                         [status |-> "empty", data |-> NoRow, error |-> ""]]
     ELSE \E row \in LatestRows(health_checks) :
            response' = [response EXCEPT ![r] =
                           [status |-> "ok", data |-> row, error |-> ""]]
  /\ pc' = [pc EXCEPT ![r] = "done"]
  /\ UNCHANGED << notebook, HEALTH_LOCK, storage, calls, locals, exc, wrote, ok >>

\* duckdb.connect or the query raises; the message is returned (lines 149-150).
ReadStorageRaises(r) ==
  /\ pc[r] = "returned"
  /\ ok[r]
  /\ con' = [con EXCEPT ![r] = TRUE]
  /\ response' = [response EXCEPT ![r] =
                    [status |-> "error", data |-> NoRow, error |-> "IO Error"]]
  /\ pc' = [pc EXCEPT ![r] = "done"]
  /\ UNCHANGED << notebook, HEALTH_LOCK, storage, calls, locals, exc, wrote, ok >>

(***************************************************************************)
(* Specifications.                                                         *)
(***************************************************************************)
Step(r) ==
  \/ Call(r) \/ Acquire(r)
  \/ Load(r) \/ LoadRaises(r)
  \/ Select(r) \/ BuildSubset(r)
  \/ Execute(r) \/ ExecuteRaises(r)
  \/ Classify(r) \/ ClassifyRaises(r)
  \/ Return(r) \/ Except(r)
  \/ RespondError(r) \/ ReadStorage(r) \/ ReadStorageRaises(r)

Next == \E r \in Requests : Step(r)

\* NumRequests concurrent requests, MaxCalls calls in all.
Spec == Init /\ [][Next]_vars

\* The requests on the empty document and the empty table, where every
\* thread that can take a step eventually takes one: each execution ends, by
\* completion or by the timeout, and a free lock is eventually taken by a
\* thread that keeps waiting for it.
FairSpec ==
  /\ InitWith({<<>>}, {{}})
  /\ [][Next]_vars
  /\ \A r \in Requests : WF_vars(Step(r))

SelectorNext ==
  \E r \in {1} : Call(r) \/ Acquire(r) \/ Load(r) \/ Select(r) \/ BuildSubset(r)

\* One call, on every document of AllDocuments, up to the construction of
\* subset_nb.
SelectorSpec == InitWith(AllDocuments, {{}}) /\ [][SelectorNext]_vars
(***************************************************************************)
(* The claims.                                                             *)
(***************************************************************************)
MaxOf(S) == CHOOSE m \in S : \A x \in S : x <= m
Indices(cells) == 0..(Len(cells) - 1)

\* The indices of the cells that carry a tag whose lower-cased value is
\* 'ui:health'.
TaggedIndices(cells) ==
  { i \in Indices(cells) :
      \E k \in 1..Len(cells[i + 1].tags) :
         cells[i + 1].tags[k].isStr /\ Lower(cells[i + 1].tags[k].val) = "ui:health" }

\* The indices of the cells whose source contains a marker substring.
MarkerIndices(cells) ==
  { i \in Indices(cells) :
      \E k \in 1..Len(load_markers) : Contains(load_markers[k], Join(cells[i + 1].source)) }

\* The indices of the package-installation cells.
InstallIndices(cells) ==
  { i \in Indices(cells) : StartsWith(LStrip(Join(cells[i + 1].source)), "%pip install") }

Selected(r) == pc[r] \in {"selected", "built"}

\* C1: in every document with a cell tagged 'ui:health' (in any case), the
\* cutoff is the greatest index of a tagged cell, whatever markers the other
\* cells contain.
C1_TagRule ==
  \A r \in Requests :
     Selected(r) /\ TaggedIndices(nb[r]) # {}
        => last_needed_idx[r] = MaxOf(TaggedIndices(nb[r]))

\* A tagged document with a marker cell after the last tagged cell.
C1_Witness ==
  \E r \in Requests :
     /\ pc[r] = "selected"
     /\ TaggedIndices(nb[r]) # {}
     /\ \E i \in MarkerIndices(nb[r]) \ InstallIndices(nb[r]) : i > last_needed_idx[r]

\* C2 as stated: in every document with no tagged cell and with a cell whose
\* source contains a marker, the cutoff is the greatest index of a cell that
\* contains a marker and is not a package-installation cell.
C2_AsStated ==
  \A r \in Requests :
     Selected(r) /\ TaggedIndices(nb[r]) = {} /\ MarkerIndices(nb[r]) # {}
        => /\ last_needed_idx[r] \in MarkerIndices(nb[r]) \ InstallIndices(nb[r])
           /\ \A i \in MarkerIndices(nb[r]) \ InstallIndices(nb[r]) : i <= last_needed_idx[r]

\* C2 amended: in every document with no tagged cell and with a cell that
\* contains a marker and is not a package-installation cell, the cutoff is
\* the greatest index of such a cell.
C2_ContentRule ==
  \A r \in Requests :
     Selected(r) /\ TaggedIndices(nb[r]) = {}
                 /\ MarkerIndices(nb[r]) \ InstallIndices(nb[r]) # {}
        => last_needed_idx[r] = MaxOf(MarkerIndices(nb[r]) \ InstallIndices(nb[r]))

\* An untagged document whose last marker is in a package-installation cell,
\* after the cutoff.
C2_Witness ==
  \E r \in Requests :
     /\ pc[r] = "selected"
     /\ TaggedIndices(nb[r]) = {}
     /\ MarkerIndices(nb[r]) \ InstallIndices(nb[r]) # {}
     /\ \E i \in MarkerIndices(nb[r]) \cap InstallIndices(nb[r]) : i > last_needed_idx[r]

\* C3: when no cell is tagged and no cell other than a package-installation
\* cell contains a marker, the cutoff is min(number of cells - 1, 19); for the
\* empty document it is -1 and the subset is the synthesis cell alone.
C3_FallbackRule ==
  \A r \in Requests :
     /\ Selected(r) /\ TaggedIndices(nb[r]) = {}
                    /\ MarkerIndices(nb[r]) \ InstallIndices(nb[r]) = {}
          => last_needed_idx[r] = (IF Len(nb[r]) - 1 <= 19 THEN Len(nb[r]) - 1 ELSE 19)
     /\ Selected(r) /\ nb[r] = <<>> => last_needed_idx[r] = -1
     /\ pc[r] = "built" /\ nb[r] = <<>> => selected_cells[r] = <<SynthesisCell>>

\* A document of more than 20 cells without tag or marker.
C3_Witness ==
  \E r \in Requests :
     /\ pc[r] = "built"
     /\ Len(nb[r]) > 20
     /\ TaggedIndices(nb[r]) = {}
     /\ MarkerIndices(nb[r]) = {}
     /\ last_needed_idx[r] = 19

NotInstall(cell) == ~StartsWith(Strip(Join(cell.source)), "%pip install")

InWithBlock == {"locked", "loaded", "selected", "built", "executed", "classified"}

\* C5: at most one call is between loading the document and the end of the
\* output inspection, and that call holds HEALTH_LOCK.
C5_MutualExclusion ==
  /\ Cardinality({r \in Requests : pc[r] \in InWithBlock}) <= 1
  /\ \A r \in Requests : pc[r] \in InWithBlock => HEALTH_LOCK = r

\* One call is about to execute the notebook while another waits.
C5_Witness ==
  \E r, q \in Requests : pc[r] = "built" /\ pc[q] = "wait"

C7_NoExceptionCrosses ==
  \A r \in Requests :
     /\ pc[r] # "propagated"
     /\ pc[r] \in {"returned", "done"} /\ exc[r] # "none" => ok[r] = FALSE
     /\ pc[r] = "done" /\ exc[r] # "none" => response[r].status = "error"

\* A call whose execution raised has returned false.
C7_Witness ==
  \E r \in Requests : pc[r] = "returned" /\ exc[r] = "execute" /\ ok[r] = FALSE

\* C8 as stated: a call that raised nothing returns true exactly when the
\* success marker occurs in the output text of the synthesis cell.
C8_AsStated ==
  \A r \in Requests :
     pc[r] \in {"returned", "done"} /\ exc[r] = "none" => (ok[r] <=> persisted[r])

\* C9: run_and_get_health answers error without connecting to the storage
\* when the audit returned false; when it returned true it connects and
\* answers ok with a row of greatest computed_at, empty when the table has
\* no row, or error with a message.
C9_StatusMapping ==
  [][\A r \in Requests :
       pc[r] = "returned" /\ pc'[r] = "done" =>
         /\ ~ok[r] => /\ response'[r] = [status |-> "error", data |-> NoRow,
                                          error |-> "Failed to execute health audit cells."]
                      /\ ~con'[r]
         /\ ok[r] => /\ con'[r]
                     /\ \/ /\ response'[r].status = "ok"
                           /\ response'[r].data \in health_checks
                           /\ \A y \in health_checks :
                                 y.computed_at <= response'[r].data.computed_at
                        \/ /\ response'[r].status = "empty"
                           /\ health_checks = {}
                        \/ /\ response'[r].status = "error"
                           /\ response'[r].error # ""]_vars

\* The answer is ok, with the later of two rows.
C9_Witness ==
  \E r \in Requests :
     /\ pc[r] = "done"
     /\ response[r].status = "ok"
     /\ Cardinality(health_checks) > 1
     /\ response[r].data.computed_at > 0

\* C10: the storage is read by a request that does not hold HEALTH_LOCK and
\* the read leaves the lock as it is, so another audit may hold it or have
\* held it since the reader released it.
C10_UnguardedRead ==
  [][\A r \in Requests :
       pc[r] = "returned" /\ ok[r] /\ pc'[r] = "done" =>
          HEALTH_LOCK # r /\ HEALTH_LOCK' = HEALTH_LOCK]_vars

\* The audit of a request persisted a row, and its answer carries the row
\* persisted by the audit of another request.
C10_Witness ==
  \E r \in Requests :
     /\ pc[r] = "done"
     /\ wrote[r]
     /\ response[r].status = "ok"
     /\ response[r].data.dataset_id = "wsb"
     /\ response[r].data.metrics # r
====
